---- MODULE Spec2Model ----
(***************************************************************************)
(* The ecommerce REST API (ecommerce/views.py, serializers.py, models.py)  *)
(* and its Tweet notification singleton (functions/tweet.py) as a state    *)
(* machine.  The database tables are functions from primary key to row;    *)
(* one action is one HTTP request handled from start to finish.            *)
(***************************************************************************)
EXTENDS Integers, Sequences, FiniteSets, TLC

\* ------------------------------------------------------------------ bounds

MaxStores == 2
MaxProducts == 2
MaxReviews == 2
\* requests each handler thread serves in the thread-level specification
MaxCalls == 2

\* ------------------------------------------------------------------ inputs

\* auth.User rows (managed outside this API) and the anonymous request.user.
Users == {"v1", "v2"}
Anon == "anon"
\* a primary key of auth.User that names no row
NoUser == "v9"

\* Text is a sequence of characters.
Names == { <<" ", "a", "b">>, <<"a", "b", "c", " ">> }
Descriptions == { <<"d">> }
Prices == { -1, 0 }
Ratings == { 0, 5 }
Comments == { <<"o", "k">> }

StoreIds == 1..MaxStores
ProductIds == 1..MaxProducts
VendorIds == Users \cup {NoUser}

\* A request body is a function from the supplied field names to their values.
Field(name, values) == { <<>> } \cup { name :> v : v \in values }

StoreData ==
  { n @@ d @@ v : n \in Field("name", Names),
                  d \in Field("description", Descriptions),
                  v \in Field("vendor_id", VendorIds) }

ProductData ==
  { n @@ d @@ p @@ s : n \in Field("name", Names),
                       d \in Field("description", Descriptions),
                       p \in Field("price", Prices),
                       s \in Field("store_id", StoreIds) }

ReviewData ==
  { p @@ r @@ c : p \in Field("product_id", ProductIds),
                  r \in Field("rating", Ratings),
                  c \in Field("comment", Comments) }

\* ------------------------------------------------------------------ state

VARIABLES
  stores,         \* Store table: id -> [vendor, name, description, created_at]
  products,       \* Product table: id -> [store, name, description, price, created_at]
  reviews,        \* Review table: id -> [product, user, rating, comment, created_at]
  Store_seq,      \* last primary key handed out by the Store table
  Product_seq,    \* last primary key handed out by the Product table
  Review_seq,     \* last primary key handed out by the Review table
  oauth,          \* Tweet._instance.oauth is set (an OAuth1Session) or None
  request,        \* the request being answered, NoRequest between requests
  before,         \* the tables as the request found them
  response,       \* the response it got
  tweeted,        \* what the notification of the last request did
  configured,     \* the TWITTER_* settings that carry a value
  Tweet,          \* the Tweet class: _instance, the objects made, counters
  threads         \* the startup thread and the handler threads inside tweet.py

db == <<stores, products, reviews, Store_seq, Product_seq, Review_seq>>
http_vars == <<request, before, response, tweeted>>
tweet_vars == <<configured, Tweet, threads>>
vars == <<stores, products, reviews, Store_seq, Product_seq, Review_seq,
          oauth, request, before, response, tweeted,
          configured, Tweet, threads>>


\* ------------------------------------------------------------------ text

\* str.strip(): drop leading and trailing blanks.
RECURSIVE LStrip(_)
LStrip(s) == IF s # <<>> /\ Head(s) = " " THEN LStrip(Tail(s)) ELSE s

RECURSIVE RStrip(_)
RStrip(s) ==
  IF s # <<>> /\ s[Len(s)] = " " THEN RStrip(SubSeq(s, 1, Len(s) - 1)) ELSE s

Strip(s) == LStrip(RStrip(s))

\* Faulty variant of CharField that hands the text to validate_<field> untrimmed.
CharField_NoTrim(value) == value

\* The serializer's CharField hands the validate_<field> hook the trimmed text
\* and refuses a blank one before the hook runs.
CharField(value) == Strip(value)

\* ------------------------------------------------------------------ serializers

Has(data, f) == f \in DOMAIN data

\* StoreSerializer.validate_name: TRUE when it raises ValidationError.
StoreSerializer_validate_name_raises(value) ==
  \/ value = <<>> \/ Len(Strip(value)) = 0
  \/ Len(value) < 3

StoreSerializer_validate_name(value) == Strip(value)

\* StoreSerializer.validate_description
StoreSerializer_validate_description_raises(value) ==
  value = <<>> \/ Len(Strip(value)) = 0

StoreSerializer_validate_description(value) == Strip(value)

\* StoreSerializer(...).is_valid(): the fields whose validation failed.  With
\* partial=True a field missing from the data is skipped, otherwise name and
\* description are required; vendor_id is never required.
StoreSerializer_errors(data, partial) ==
  { f \in {"name"} :
      IF Has(data, f)
        THEN StoreSerializer_validate_name_raises(CharField(data[f]))
        ELSE ~partial }
  \cup
  { f \in {"description"} :
      IF Has(data, f)
        THEN StoreSerializer_validate_description_raises(CharField(data[f]))
        ELSE ~partial }

\* serializer.validated_data of a valid StoreSerializer
StoreSerializer_validated_data(data) ==
  [ f \in DOMAIN data |->
      CASE f = "name" -> StoreSerializer_validate_name(CharField(data[f]))
        [] f = "description" ->
             StoreSerializer_validate_description(CharField(data[f]))
        [] OTHER -> data[f] ]

\* Faulty variant of StoreSerializer.create that trusts the payload's vendor_id.
StoreSerializer_create_TrustsPayload(validated_data, user, now) ==
  [ vendor |-> IF Has(validated_data, "vendor_id")
                 THEN validated_data["vendor_id"] ELSE user,
    name |-> validated_data["name"],
    description |-> validated_data["description"],
    created_at |-> now ]

\* StoreSerializer.create: vendor_id is dropped and the vendor is request.user;
\* created_at (auto_now_add) is the insertion time.
StoreSerializer_create(validated_data, user, now) ==
  [ vendor |-> user,
    name |-> validated_data["name"],
    description |-> validated_data["description"],
    created_at |-> now ]

\* Faulty variant of the Store update that is not partial: a field absent from
\* the payload is written blank.
StoreSerializer_update_Overwrites(instance, validated_data) ==
  [ vendor |-> IF Has(validated_data, "vendor_id")
                 THEN validated_data["vendor_id"] ELSE instance.vendor,
    name |-> IF Has(validated_data, "name")
               THEN validated_data["name"] ELSE <<>>,
    description |-> IF Has(validated_data, "description")
                      THEN validated_data["description"] ELSE <<>>,
    created_at |-> instance.created_at ]

\* ModelSerializer.update on a Store: every validated field is set on the row.
StoreSerializer_update(instance, validated_data) ==
  [ vendor |-> IF Has(validated_data, "vendor_id")
                 THEN validated_data["vendor_id"] ELSE instance.vendor,
    name |-> IF Has(validated_data, "name")
               THEN validated_data["name"] ELSE instance.name,
    description |-> IF Has(validated_data, "description")
                      THEN validated_data["description"]
                      ELSE instance.description,
    created_at |-> instance.created_at ]

\* StoreSerializer(store).data: vendor_id is write-only, vendor is nested.
StoreSerializer_data(id, store) ==
  [ id |-> id,
    vendor |-> store.vendor,
    name |-> store.name,
    description |-> store.description,
    created_at |-> store.created_at ]

\* ProductSerializer.validate_name
ProductSerializer_validate_name_raises(value) ==
  \/ value = <<>> \/ Len(Strip(value)) = 0
  \/ Len(value) < 3

ProductSerializer_validate_name(value) == Strip(value)

\* ProductSerializer.validate_description
ProductSerializer_validate_description_raises(value) ==
  value = <<>> \/ Len(Strip(value)) = 0

ProductSerializer_validate_description(value) == Strip(value)

\* Faulty variant of validate_price that lets every price through.
ProductSerializer_validate_price_raises_Never(value) == FALSE

\* ProductSerializer.validate_price
ProductSerializer_validate_price_raises(value) == value < 0

\* Faulty variant of validate_store_id that only looks the store up.
ProductSerializer_validate_store_id_raises_AnyStore(value, user) ==
  value \notin DOMAIN stores

\* ProductSerializer.validate_store_id: the store must exist and, when the
\* serializer has a request in its context, belong to request.user.
ProductSerializer_validate_store_id_raises(value, user) ==
  IF value \in DOMAIN stores
    THEN user # stores[value].vendor
    ELSE TRUE

\* ProductSerializer(...).is_valid(): the fields whose validation failed.
\* store_id, name, description and price are required unless partial=True.
ProductSerializer_errors(data, partial, user) ==
  { f \in {"store_id", "name", "description", "price"} :
      IF Has(data, f)
        THEN CASE f = "store_id" ->
                    ProductSerializer_validate_store_id_raises(data[f], user)
               [] f = "name" ->
                    ProductSerializer_validate_name_raises(CharField(data[f]))
               [] f = "description" ->
                    ProductSerializer_validate_description_raises(CharField(data[f]))
               [] f = "price" ->
                    ProductSerializer_validate_price_raises(data[f])
        ELSE ~partial }

ProductSerializer_validated_data(data) ==
  [ f \in DOMAIN data |->
      CASE f = "name" -> ProductSerializer_validate_name(CharField(data[f]))
        [] f = "description" ->
             ProductSerializer_validate_description(CharField(data[f]))
        [] OTHER -> data[f] ]

\* ModelSerializer.create on a Product
ProductSerializer_create(validated_data, now) ==
  [ store |-> validated_data["store_id"],
    name |-> validated_data["name"],
    description |-> validated_data["description"],
    price |-> validated_data["price"],
    created_at |-> now ]

\* ModelSerializer.update on a Product
ProductSerializer_update(instance, validated_data) ==
  [ store |-> IF Has(validated_data, "store_id")
                THEN validated_data["store_id"] ELSE instance.store,
    name |-> IF Has(validated_data, "name")
               THEN validated_data["name"] ELSE instance.name,
    description |-> IF Has(validated_data, "description")
                      THEN validated_data["description"]
                      ELSE instance.description,
    price |-> IF Has(validated_data, "price")
                THEN validated_data["price"] ELSE instance.price,
    created_at |-> instance.created_at ]

\* ProductSerializer(product).data: the store is nested, store_id is write-only.
ProductSerializer_data(id, product, storeTable) ==
  [ id |-> id,
    store |-> StoreSerializer_data(product.store, storeTable[product.store]),
    name |-> product.name,
    description |-> product.description,
    price |-> product.price,
    created_at |-> product.created_at ]

\* ReviewSerializer.validate_rating
ReviewSerializer_validate_rating_raises(value) == value < 1 \/ value > 5

\* ReviewSerializer.validate_comment
ReviewSerializer_validate_comment_raises(value) ==
  value = <<>> \/ Len(Strip(value)) = 0

ReviewSerializer_validate_comment(value) == Strip(value)

\* ReviewSerializer(...).is_valid(): rating and comment are required,
\* product_id is not (required=False) and is not looked up.
ReviewSerializer_errors(data) ==
  { f \in {"rating", "comment"} :
      IF Has(data, f)
        THEN CASE f = "rating" -> ReviewSerializer_validate_rating_raises(data[f])
               [] f = "comment" ->
                    ReviewSerializer_validate_comment_raises(CharField(data[f]))
        ELSE TRUE }

\* ReviewSerializer.create: the row inserted for request.user
ReviewSerializer_create(data, user, now) ==
  [ product |-> data["product_id"],
    user |-> user,
    rating |-> data["rating"],
    comment |-> ReviewSerializer_validate_comment(CharField(data["comment"])),
    created_at |-> now ]

\* ReviewSerializer(review).data
ReviewSerializer_data(id, review, productTable, storeTable) ==
  [ id |-> id,
    product |-> ProductSerializer_data(review.product,
                                       productTable[review.product], storeTable),
    user |-> review.user,
    rating |-> review.rating,
    comment |-> review.comment,
    created_at |-> review.created_at ]

\* ------------------------------------------------------------------ models

\* Faulty variant of the ordering that returns the rows oldest first, as a
\* Meta.ordering of ['created_at'] would.
RECURSIVE OrderByCreatedAtDesc_OldestFirst(_, _)
OrderByCreatedAtDesc_OldestFirst(ids, table) ==
  IF ids = {} THEN <<>>
  ELSE LET first == CHOOSE i \in ids :
                      \A j \in ids : table[i].created_at <= table[j].created_at
       IN <<first>> \o OrderByCreatedAtDesc_OldestFirst(ids \ {first}, table)

\* Meta.ordering = ['-created_at']: the rows `ids` of `table`, newest first.
RECURSIVE OrderByCreatedAtDesc(_, _)
OrderByCreatedAtDesc(ids, table) ==
  IF ids = {} THEN <<>>
  ELSE LET first == CHOOSE i \in ids :
                      \A j \in ids : table[j].created_at <= table[i].created_at
       IN <<first>> \o OrderByCreatedAtDesc(ids \ {first}, table)

\* the table without the rows `ids`
Without(table, ids) == [ i \in DOMAIN table \ ids |-> table[i] ]

\* the table with row `id` set
With(table, id, row) ==
  [ i \in DOMAIN table \cup {id} |-> IF i = id THEN row ELSE table[i] ]

\* store.products.all() as a set of primary keys
ProductsOf(store_id) == { p \in DOMAIN products : products[p].store = store_id }

\* Review.objects.filter(product__in=...) as a set of primary keys
ReviewsOf(product_ids) == { r \in DOMAIN reviews : reviews[r].product \in product_ids }

\* Faulty variant of the Review table without the unique_together constraint.
UniqueTogetherViolated_Unenforced(product_id, user) == FALSE

\* Review.Meta.unique_together = ['product', 'user']: the insert would break it.
UniqueTogetherViolated(product_id, user) ==
  \E r \in DOMAIN reviews :
    reviews[r].product = product_id /\ reviews[r].user = user

\* ------------------------------------------------------------------ tweet.py

Secrets == { "TWITTER_CONSUMER_KEY", "TWITTER_CONSUMER_SECRET",
             "TWITTER_ACCESS_TOKEN", "TWITTER_ACCESS_TOKEN_SECRET" }

\* Faulty variant of Tweet.authenticate that tests the two consumer secrets only,
\* as __init__ does.
Tweet_authenticate_TwoSecrets(settings) ==
  {"TWITTER_CONSUMER_KEY", "TWITTER_CONSUMER_SECRET"} \subseteq settings

\* Tweet.authenticate: the OAuth1Session is made only with all four secrets.
Tweet_authenticate(settings) == settings = Secrets

\* Tweet.__init__ (run once, by EcommerceConfig.ready): oauth starts as None and
\* authenticate() is called when the two consumer secrets are set.
Tweet_init(settings) ==
  IF "TWITTER_CONSUMER_KEY" \in settings /\ "TWITTER_CONSUMER_SECRET" \in settings
    THEN Tweet_authenticate(settings)
    ELSE FALSE

\* Tweet.make_tweet: what one call can do.  Without a session it skips; with one
\* it posts once, and the transport answers 201, another status, or raises.
Tweet_make_tweet == IF ~oauth THEN {"skipped"}
                    ELSE {"posted", "rejected", "transport_raised"}

\* The notification block of a create handler: Tweet() may raise before
\* make_tweet is reached.
Notifications == {"tweet_raised"} \cup Tweet_make_tweet

\* --------------------------------------------------- tweet.py, step by step

\* The startup thread runs EcommerceConfig.ready(); a handler thread runs the
\* notification block of a create handler.
Threads == {"ready", "h1", "h2"}
Handlers == Threads \ {"ready"}

\* self.oauth = None
None == 0
\* an attribute that no statement has assigned yet
NoAttribute == -1

\* The Tweet class before the first Tweet(): _instance is None (0), no object.
Tweet_class ==
  [ instance |-> 0, objects |-> <<>>, loads |-> 0, auths |-> 0, sessions |-> 0 ]

\* A thread that is not inside tweet.py.
Thread(pc) ==
  [ pc |-> pc, self |-> 0, posts |-> 0, transport |-> "none", result |-> "none",
    calls |-> 0, explicit |-> 0 ]

\* thread t moves to pc
Goto(t, pc) == [ threads EXCEPT ![t].pc = pc ]

\* the object a thread holds as self / tweet
Self(t) == Tweet.objects[threads[t].self]

\* Faulty variant of EcommerceConfig.ready that does not build the singleton.
EcommerceConfig_ready_NoTweet ==
  /\ threads["ready"].pc = "startup"
  /\ threads' = Goto("ready", "done")
  /\ UNCHANGED Tweet

\* EcommerceConfig.ready: Tweet() at startup.
EcommerceConfig_ready ==
  /\ threads["ready"].pc = "startup"
  /\ threads' = Goto("ready", "new")
  /\ UNCHANGED Tweet

\* EcommerceConfig.ready returns: the app registry is ready and requests are served.
EcommerceConfig_ready_return ==
  /\ threads["ready"].pc \in {"constructed", "raised"}
  /\ threads' = Goto("ready", "done")
  /\ UNCHANGED Tweet

\* A create handler saved its entity and enters `tweet = Tweet()`.  Handlers
\* run once the app registry is ready.
handler_Tweet(t) ==
  /\ t \in Handlers
  /\ threads["ready"].pc = "done"
  /\ threads[t].pc = "idle"
  /\ threads[t].calls < MaxCalls
  /\ threads' = [ threads EXCEPT ![t] =
                    [ Thread("new") EXCEPT !.calls = threads[t].calls + 1 ] ]
  /\ UNCHANGED Tweet

\* Tweet.__new__: if cls._instance is None
Tweet_new_check(t) ==
  /\ threads[t].pc = "new"
  /\ threads' = Goto(t, IF Tweet.instance = 0 THEN "new_create" ELSE "new_return")
  /\ UNCHANGED Tweet

\* Tweet.__new__: cls._instance = super().__new__(cls)
Tweet_new_create(t) ==
  /\ threads[t].pc = "new_create"
  /\ Tweet' = [ Tweet EXCEPT
       !.objects = Append(@, [ initialized |-> "unset", creds |-> {},
                               oauth |-> NoAttribute ]),
       !.instance = Len(Tweet.objects) + 1 ]
  /\ threads' = Goto(t, "new_flag")

\* Tweet.__new__: cls._instance._initialized = False
Tweet_new_flag(t) ==
  /\ threads[t].pc = "new_flag"
  /\ Tweet' = [ Tweet EXCEPT !.objects[Tweet.instance].initialized = "False" ]
  /\ threads' = Goto(t, "new_return")

\* Tweet.__new__: return cls._instance; __init__ is then called on it
Tweet_new_return(t) ==
  /\ threads[t].pc = "new_return"
  /\ threads' = [ threads EXCEPT ![t].pc = "init", ![t].self = Tweet.instance ]
  /\ UNCHANGED Tweet

\* Faulty variant of the guard of Tweet.__init__: every Tweet() initializes again.
Tweet_init_check_NoGuard(t) ==
  /\ threads[t].pc = "init"
  /\ threads' = Goto(t, "init_load")
  /\ UNCHANGED Tweet

\* Tweet.__init__: if self._initialized: return
Tweet_init_check(t) ==
  /\ threads[t].pc = "init"
  /\ threads' = Goto(t, CASE Self(t).initialized = "True" -> "constructed"
                          [] Self(t).initialized = "False" -> "init_load"
                          [] OTHER -> "raised")
  /\ UNCHANGED Tweet

\* Tweet.__init__: the four credentials are read from settings, self.oauth = None,
\* self._initialized = True; authenticate() follows when the consumer key and
\* the consumer secret are set.
Tweet_init_load(t) ==
  /\ threads[t].pc = "init_load"
  /\ Tweet' = [ Tweet EXCEPT
       !.objects[threads[t].self] =
          [ initialized |-> "True", creds |-> configured, oauth |-> None ],
       !.loads = @ + 1 ]
  /\ threads' = Goto(t, IF /\ "TWITTER_CONSUMER_KEY" \in configured
                           /\ "TWITTER_CONSUMER_SECRET" \in configured
                          THEN "authenticate" ELSE "constructed")

\* Tweet.authenticate, called by __init__ or by a holder of the instance: with
\* all four credentials a new OAuth1Session becomes self.oauth, otherwise
\* nothing is written and False is returned.
Tweet_authenticate_run(t) ==
  /\ threads[t].pc = "authenticate"
  /\ Tweet' = IF Tweet_authenticate(Self(t).creds)
                THEN [ Tweet EXCEPT
                         !.objects[threads[t].self].oauth = Tweet.sessions + 1,
                         !.sessions = @ + 1,
                         !.auths = @ + 1 ]
                ELSE [ Tweet EXCEPT !.auths = @ + 1 ]
  /\ threads' = Goto(t, "constructed")

\* A holder of the instance calls tweet.authenticate() itself.
explicit_authenticate(t) ==
  /\ t \in Handlers
  /\ threads[t].pc = "constructed"
  /\ threads[t].explicit = 0
  /\ threads' = [ threads EXCEPT ![t].pc = "authenticate", ![t].explicit = 1 ]
  /\ UNCHANGED Tweet

\* Tweet.make_tweet: if not self.oauth: return None
Tweet_make_tweet_check(t) ==
  /\ t \in Handlers
  /\ threads[t].pc = "constructed"
  /\ threads' =
       IF Self(t).oauth = NoAttribute
         THEN [ threads EXCEPT ![t].pc = "returned", ![t].result = "raised" ]
       ELSE IF Self(t).oauth = None
         THEN [ threads EXCEPT ![t].pc = "returned", ![t].result = "skipped" ]
       ELSE Goto(t, "post")
  /\ UNCHANGED Tweet

\* What self.oauth.post(url, json=payload) and response.json() can do.
Transport == {"201", "201_json_raises", "400", "raises"}

\* Faulty variant of the POST of make_tweet: a rejected tweet is sent again and
\* a transport exception reaches the caller.
Tweet_make_tweet_post_Retries(t) ==
  /\ threads[t].pc = "post"
  /\ \E outcome \in Transport :
       threads' = [ threads EXCEPT
         ![t].pc = "returned",
         ![t].posts = IF outcome = "400" THEN @ + 2 ELSE @ + 1,
         ![t].transport = outcome,
         ![t].result = CASE outcome = "201" -> "json"
                         [] outcome = "raises" -> "raised"
                         [] OTHER -> "None" ]
  /\ UNCHANGED Tweet

\* Tweet.make_tweet: one POST; response.json() for status 201, None for any
\* other status; an exception of the transport or of json() is logged and None
\* is returned.
Tweet_make_tweet_post(t) ==
  /\ threads[t].pc = "post"
  /\ \E outcome \in Transport :
       threads' = [ threads EXCEPT
         ![t].pc = "returned",
         ![t].posts = @ + 1,
         ![t].transport = outcome,
         ![t].result = IF outcome = "201" THEN "json" ELSE "None" ]
  /\ UNCHANGED Tweet

\* The notification block is left and the handler returns its response.
handler_return(t) ==
  /\ t \in Handlers
  /\ threads[t].pc \in {"returned", "raised"}
  /\ threads' = Goto(t, "idle")
  /\ UNCHANGED Tweet

\* The class and the threads once EcommerceConfig.ready() has returned.
Constructed(settings) ==
  [ Tweet_class EXCEPT
      !.instance = 1,
      !.objects = << [ initialized |-> "True", creds |-> settings,
                       oauth |-> IF Tweet_init(settings) THEN 1 ELSE None ] >>,
      !.loads = 1,
      !.auths = IF /\ "TWITTER_CONSUMER_KEY" \in settings
                   /\ "TWITTER_CONSUMER_SECRET" \in settings THEN 1 ELSE 0,
      !.sessions = IF Tweet_init(settings) THEN 1 ELSE 0 ]

Serving == [ t \in Threads |-> Thread(IF t = "ready" THEN "done" ELSE "idle") ]

\* ------------------------------------------------------------------ views.py

Response(data, status) == [ status |-> status, data |-> data ]

Request(method, path, user, id, data) ==
  [ method |-> method, path |-> path, user |-> user, id |-> id, data |-> data ]

\* the three tables
Tables == [ stores |-> stores, products |-> products, reviews |-> reviews ]

NoTables == [ stores |-> <<>>, products |-> <<>>, reviews |-> <<>> ]

\* no request is being handled
NoRequest == Request("NONE", "none", Anon, 0, <<>>)

\* request.user.is_authenticated
is_authenticated(user) == user # Anon

NoData == <<>>

\* A handler that changes nothing and sends no notification.
Reply(req, resp) ==
  /\ request' = req
  /\ before' = Tables
  /\ response' = resp
  /\ tweeted' = "none"
  /\ UNCHANGED <<db, oauth>>

\* GET /stores/{id}/
store_detail_GET(user, store_id) ==
  Reply(Request("GET", "store_detail", user, store_id, NoData),
        IF store_id \notin DOMAIN stores
          THEN Response([error |-> "Operation failed"], 500)
          ELSE Response(StoreSerializer_data(store_id, stores[store_id]), 200))

\* PUT /stores/{id}/
store_detail_PUT(user, store_id, data) ==
  /\ request' = Request("PUT", "store_detail", user, store_id, data)
  /\ before' = Tables
  /\ tweeted' = "none"
  /\ UNCHANGED <<products, reviews, Store_seq, Product_seq, Review_seq, oauth>>
  /\ IF store_id \notin DOMAIN stores THEN
       /\ response' = Response([error |-> "Operation failed"], 500)
       /\ UNCHANGED stores
     ELSE IF ~is_authenticated(user) THEN
       /\ response' = Response([error |-> "Authentication required"], 401)
       /\ UNCHANGED stores
     ELSE IF stores[store_id].vendor # user THEN
       /\ response' = Response(
            [error |-> "You do not have permission to update this store"], 403)
       /\ UNCHANGED stores
     ELSE IF StoreSerializer_errors(data, TRUE) # {} THEN
       /\ response' = Response([errors |-> StoreSerializer_errors(data, TRUE)], 400)
       /\ UNCHANGED stores
     ELSE
       LET saved == StoreSerializer_update(stores[store_id],
                                           StoreSerializer_validated_data(data))
       IN IF saved.vendor \notin Users THEN
            \* the foreign key to auth.User fails in save()
            /\ response' = Response([error |-> "Operation failed"], 500)
            /\ UNCHANGED stores
          ELSE
            /\ stores' = With(stores, store_id, saved)
            /\ response' = Response(StoreSerializer_data(store_id, saved), 200)

\* Faulty variant of DELETE /stores/{id}/ without the ownership test: every
\* authenticated caller may delete.
store_detail_DELETE_AnyVendor(user, store_id) ==
  /\ request' = Request("DELETE", "store_detail", user, store_id, NoData)
  /\ before' = Tables
  /\ tweeted' = "none"
  /\ UNCHANGED <<Store_seq, Product_seq, Review_seq, oauth>>
  /\ IF store_id \notin DOMAIN stores THEN
       /\ response' = Response([error |-> "Operation failed"], 500)
       /\ UNCHANGED <<stores, products, reviews>>
     ELSE IF ~is_authenticated(user) THEN
       /\ response' = Response([error |-> "Authentication required"], 401)
       /\ UNCHANGED <<stores, products, reviews>>
     ELSE
       /\ stores' = Without(stores, {store_id})
       /\ products' = Without(products, ProductsOf(store_id))
       /\ reviews' = Without(reviews, ReviewsOf(ProductsOf(store_id)))
       /\ response' = Response(NoData, 204)

\* Faulty variant of DELETE /stores/{id}/ whose delete stops at the products:
\* the reviews of the deleted products stay.
store_detail_DELETE_NoReviewCascade(user, store_id) ==
  /\ request' = Request("DELETE", "store_detail", user, store_id, NoData)
  /\ before' = Tables
  /\ tweeted' = "none"
  /\ UNCHANGED <<Store_seq, Product_seq, Review_seq, oauth>>
  /\ IF store_id \notin DOMAIN stores THEN
       /\ response' = Response([error |-> "Operation failed"], 500)
       /\ UNCHANGED <<stores, products, reviews>>
     ELSE IF ~is_authenticated(user) THEN
       /\ response' = Response([error |-> "Authentication required"], 401)
       /\ UNCHANGED <<stores, products, reviews>>
     ELSE IF stores[store_id].vendor # user THEN
       /\ response' = Response(
            [error |-> "You do not have permission to delete this store"], 403)
       /\ UNCHANGED <<stores, products, reviews>>
     ELSE
       /\ stores' = Without(stores, {store_id})
       /\ products' = Without(products, ProductsOf(store_id))
       /\ UNCHANGED reviews
       /\ response' = Response(NoData, 204)

\* DELETE /stores/{id}/: store.delete() cascades to the products of the store
\* and to the reviews of those products.
store_detail_DELETE(user, store_id) ==
  /\ request' = Request("DELETE", "store_detail", user, store_id, NoData)
  /\ before' = Tables
  /\ tweeted' = "none"
  /\ UNCHANGED <<Store_seq, Product_seq, Review_seq, oauth>>
  /\ IF store_id \notin DOMAIN stores THEN
       /\ response' = Response([error |-> "Operation failed"], 500)
       /\ UNCHANGED <<stores, products, reviews>>
     ELSE IF ~is_authenticated(user) THEN
       /\ response' = Response([error |-> "Authentication required"], 401)
       /\ UNCHANGED <<stores, products, reviews>>
     ELSE IF stores[store_id].vendor # user THEN
       /\ response' = Response(
            [error |-> "You do not have permission to delete this store"], 403)
       /\ UNCHANGED <<stores, products, reviews>>
     ELSE
       /\ stores' = Without(stores, {store_id})
       /\ products' = Without(products, ProductsOf(store_id))
       /\ reviews' = Without(reviews, ReviewsOf(ProductsOf(store_id)))
       /\ response' = Response(NoData, 204)

\* GET /stores/{id}/products/
store_products_GET(user, store_id) ==
  Reply(Request("GET", "store_products", user, store_id, NoData),
        IF store_id \notin DOMAIN stores
          THEN Response([error |-> "Operation failed"], 500)
          ELSE Response(
                 [ i \in 1..Cardinality(ProductsOf(store_id)) |->
                     LET p == OrderByCreatedAtDesc(ProductsOf(store_id), products)[i]
                     IN ProductSerializer_data(p, products[p], stores) ],
                 200))

\* Faulty variant of POST /stores/{id}/products/ without the ownership test.
store_products_POST_AnyVendor(user, store_id, body) ==
  LET data == ("store_id" :> store_id) @@ body
      id == Product_seq + 1
  IN
  /\ request' = Request("POST", "store_products", user, store_id, body)
  /\ before' = Tables
  /\ UNCHANGED <<stores, reviews, Store_seq, Review_seq, oauth>>
  /\ IF store_id \notin DOMAIN stores THEN
       /\ response' = Response([error |-> "Operation failed"], 500)
       /\ tweeted' = "none"
       /\ UNCHANGED <<products, Product_seq>>
     ELSE IF ~is_authenticated(user) THEN
       /\ response' = Response([error |-> "Authentication required"], 401)
       /\ tweeted' = "none"
       /\ UNCHANGED <<products, Product_seq>>
     ELSE IF ProductSerializer_errors(data, FALSE, stores[store_id].vendor) # {} THEN
       /\ response' =
            Response([errors |-> ProductSerializer_errors(
                                   data, FALSE, stores[store_id].vendor)], 400)
       /\ tweeted' = "none"
       /\ UNCHANGED <<products, Product_seq>>
     ELSE
       LET product == ProductSerializer_create(
                        ProductSerializer_validated_data(data), id)
       IN /\ id <= MaxProducts
          /\ products' = With(products, id, product)
          /\ Product_seq' = id
          /\ tweeted' \in Notifications
          /\ response' = Response(ProductSerializer_data(id, product, stores), 201)

\* POST /stores/{id}/products/
store_products_POST(user, store_id, body) ==
  LET data == ("store_id" :> store_id) @@ body
      id == Product_seq + 1
  IN
  /\ request' = Request("POST", "store_products", user, store_id, body)
  /\ before' = Tables
  /\ UNCHANGED <<stores, reviews, Store_seq, Review_seq, oauth>>
  /\ IF store_id \notin DOMAIN stores THEN
       /\ response' = Response([error |-> "Operation failed"], 500)
       /\ tweeted' = "none"
       /\ UNCHANGED <<products, Product_seq>>
     ELSE IF ~is_authenticated(user) THEN
       /\ response' = Response([error |-> "Authentication required"], 401)
       /\ tweeted' = "none"
       /\ UNCHANGED <<products, Product_seq>>
     ELSE IF stores[store_id].vendor # user THEN
       /\ response' = Response(
            [error |-> "You do not have permission to add products to this store"],
            403)
       /\ tweeted' = "none"
       /\ UNCHANGED <<products, Product_seq>>
     ELSE IF ProductSerializer_errors(data, FALSE, user) # {} THEN
       /\ response' =
            Response([errors |-> ProductSerializer_errors(data, FALSE, user)], 400)
       /\ tweeted' = "none"
       /\ UNCHANGED <<products, Product_seq>>
     ELSE
       LET product == ProductSerializer_create(
                        ProductSerializer_validated_data(data), id)
       IN /\ id <= MaxProducts
          /\ products' = With(products, id, product)
          /\ Product_seq' = id
          /\ tweeted' \in Notifications
          /\ response' = Response(ProductSerializer_data(id, product, stores), 201)

\* GET /products/{id}/
product_detail_GET(user, product_id) ==
  Reply(Request("GET", "product_detail", user, product_id, NoData),
        IF product_id \notin DOMAIN products
          THEN Response([error |-> "Operation failed"], 500)
          ELSE Response(
                 ProductSerializer_data(product_id, products[product_id], stores),
                 200))

\* Faulty variant of PUT /products/{id}/ that saves the fields that passed
\* validation before it answers 400 for the ones that failed.
product_detail_PUT_SavesValidFields(user, product_id, data) ==
  /\ request' = Request("PUT", "product_detail", user, product_id, data)
  /\ before' = Tables
  /\ tweeted' = "none"
  /\ UNCHANGED <<stores, reviews, Store_seq, Product_seq, Review_seq, oauth>>
  /\ IF product_id \notin DOMAIN products THEN
       /\ response' = Response([error |-> "Operation failed"], 500)
       /\ UNCHANGED products
     ELSE IF ~is_authenticated(user) THEN
       /\ response' = Response([error |-> "Authentication required"], 401)
       /\ UNCHANGED products
     ELSE IF stores[products[product_id].store].vendor # user THEN
       /\ response' = Response(
            [error |-> "You do not have permission to update this product"], 403)
       /\ UNCHANGED products
     ELSE
       LET errors == ProductSerializer_errors(data, TRUE, user)
           valid == [ f \in DOMAIN data \ errors |-> data[f] ]
           saved == ProductSerializer_update(products[product_id],
                                             ProductSerializer_validated_data(valid))
       IN /\ products' = With(products, product_id, saved)
          /\ response' =
               IF errors # {}
                 THEN Response([errors |-> errors], 400)
                 ELSE Response(ProductSerializer_data(product_id, saved, stores),
                               200)

\* PUT /products/{id}/
product_detail_PUT(user, product_id, data) ==
  /\ request' = Request("PUT", "product_detail", user, product_id, data)
  /\ before' = Tables
  /\ tweeted' = "none"
  /\ UNCHANGED <<stores, reviews, Store_seq, Product_seq, Review_seq, oauth>>
  /\ IF product_id \notin DOMAIN products THEN
       /\ response' = Response([error |-> "Operation failed"], 500)
       /\ UNCHANGED products
     ELSE IF ~is_authenticated(user) THEN
       /\ response' = Response([error |-> "Authentication required"], 401)
       /\ UNCHANGED products
     ELSE IF stores[products[product_id].store].vendor # user THEN
       /\ response' = Response(
            [error |-> "You do not have permission to update this product"], 403)
       /\ UNCHANGED products
     ELSE IF ProductSerializer_errors(data, TRUE, user) # {} THEN
       /\ response' =
            Response([errors |-> ProductSerializer_errors(data, TRUE, user)], 400)
       /\ UNCHANGED products
     ELSE
       LET saved == ProductSerializer_update(products[product_id],
                                             ProductSerializer_validated_data(data))
       IN /\ products' = With(products, product_id, saved)
          /\ response' =
               Response(ProductSerializer_data(product_id, saved, stores), 200)

\* Faulty variant of DELETE /products/{id}/ that announces the deletion.
product_detail_DELETE_Notifies(user, product_id) ==
  /\ request' = Request("DELETE", "product_detail", user, product_id, NoData)
  /\ before' = Tables
  /\ UNCHANGED <<stores, Store_seq, Product_seq, Review_seq, oauth>>
  /\ IF product_id \notin DOMAIN products THEN
       /\ response' = Response([error |-> "Operation failed"], 500)
       /\ tweeted' = "none"
       /\ UNCHANGED <<products, reviews>>
     ELSE IF ~is_authenticated(user) THEN
       /\ response' = Response([error |-> "Authentication required"], 401)
       /\ tweeted' = "none"
       /\ UNCHANGED <<products, reviews>>
     ELSE IF stores[products[product_id].store].vendor # user THEN
       /\ response' = Response(
            [error |-> "You do not have permission to delete this product"], 403)
       /\ tweeted' = "none"
       /\ UNCHANGED <<products, reviews>>
     ELSE
       /\ products' = Without(products, {product_id})
       /\ reviews' = Without(reviews, ReviewsOf({product_id}))
       /\ tweeted' \in Notifications
       /\ response' = Response(NoData, 204)

\* Faulty variant of DELETE /products/{id}/ that tests nothing but authentication.
product_detail_DELETE_AnyVendor(user, product_id) ==
  /\ request' = Request("DELETE", "product_detail", user, product_id, NoData)
  /\ before' = Tables
  /\ tweeted' = "none"
  /\ UNCHANGED <<stores, Store_seq, Product_seq, Review_seq, oauth>>
  /\ IF product_id \notin DOMAIN products THEN
       /\ response' = Response([error |-> "Operation failed"], 500)
       /\ UNCHANGED <<products, reviews>>
     ELSE IF ~is_authenticated(user) THEN
       /\ response' = Response([error |-> "Authentication required"], 401)
       /\ UNCHANGED <<products, reviews>>
     ELSE
       /\ products' = Without(products, {product_id})
       /\ reviews' = Without(reviews, ReviewsOf({product_id}))
       /\ response' = Response(NoData, 204)

\* DELETE /products/{id}/: product.delete() cascades to the reviews of the product.
product_detail_DELETE(user, product_id) ==
  /\ request' = Request("DELETE", "product_detail", user, product_id, NoData)
  /\ before' = Tables
  /\ tweeted' = "none"
  /\ UNCHANGED <<stores, Store_seq, Product_seq, Review_seq, oauth>>
  /\ IF product_id \notin DOMAIN products THEN
       /\ response' = Response([error |-> "Operation failed"], 500)
       /\ UNCHANGED <<products, reviews>>
     ELSE IF ~is_authenticated(user) THEN
       /\ response' = Response([error |-> "Authentication required"], 401)
       /\ UNCHANGED <<products, reviews>>
     ELSE IF stores[products[product_id].store].vendor # user THEN
       /\ response' = Response(
            [error |-> "You do not have permission to delete this product"], 403)
       /\ UNCHANGED <<products, reviews>>
     ELSE
       /\ products' = Without(products, {product_id})
       /\ reviews' = Without(reviews, ReviewsOf({product_id}))
       /\ response' = Response(NoData, 204)

\* Faulty variant of GET /stores/{id}/reviews/ that lists every review.
get_vendor_store_reviews_AllReviews(user, store_id) ==
  Reply(Request("GET", "store_reviews", user, store_id, NoData),
        IF ~is_authenticated(user)
          THEN Response(
                 [detail |-> "Authentication credentials were not provided."], 401)
        ELSE IF store_id \notin DOMAIN stores
          THEN Response([error |-> "Failed to fetch reviews"], 500)
        ELSE IF stores[store_id].vendor # user
          THEN Response(
                 [error |-> "You do not have permission to view reviews for this store"],
                 403)
        ELSE Response(
               [ i \in 1..Cardinality(DOMAIN reviews) |->
                   LET r == OrderByCreatedAtDesc(DOMAIN reviews, reviews)[i]
                   IN ReviewSerializer_data(r, reviews[r], products, stores) ],
               200))

\* GET /stores/{id}/reviews/ (permission class IsAuthenticated, then the view)
get_vendor_store_reviews(user, store_id) ==
  Reply(Request("GET", "store_reviews", user, store_id, NoData),
        IF ~is_authenticated(user)
          THEN Response(
                 [detail |-> "Authentication credentials were not provided."], 401)
        ELSE IF store_id \notin DOMAIN stores
          THEN Response([error |-> "Failed to fetch reviews"], 500)
        ELSE IF stores[store_id].vendor # user
          THEN Response(
                 [error |-> "You do not have permission to view reviews for this store"],
                 403)
        ELSE Response(
               [ i \in 1..Cardinality(ReviewsOf(ProductsOf(store_id))) |->
                   LET r == OrderByCreatedAtDesc(ReviewsOf(ProductsOf(store_id)),
                                                 reviews)[i]
                   IN ReviewSerializer_data(r, reviews[r], products, stores) ],
               200))

\* GET /stores/
stores_list_create_GET(user) ==
  Reply(Request("GET", "stores", user, 0, NoData),
        Response([ i \in 1..Cardinality(DOMAIN stores) |->
                     LET s == OrderByCreatedAtDesc(DOMAIN stores, stores)[i]
                     IN StoreSerializer_data(s, stores[s]) ],
                 200))

\* Faulty variant of POST /stores/ in which an exception of the notification
\* block reaches the outer handler.
stores_list_create_POST_TweetPropagates(user, data) ==
  LET id == Store_seq + 1 IN
  /\ request' = Request("POST", "stores", user, 0, data)
  /\ before' = Tables
  /\ UNCHANGED <<products, reviews, Product_seq, Review_seq, oauth>>
  /\ IF ~is_authenticated(user) THEN
       /\ response' = Response([error |-> "Authentication required"], 401)
       /\ tweeted' = "none"
       /\ UNCHANGED <<stores, Store_seq>>
     ELSE IF StoreSerializer_errors(data, FALSE) # {} THEN
       /\ response' = Response([errors |-> StoreSerializer_errors(data, FALSE)], 400)
       /\ tweeted' = "none"
       /\ UNCHANGED <<stores, Store_seq>>
     ELSE
       LET store == StoreSerializer_create(StoreSerializer_validated_data(data),
                                           user, id)
       IN /\ id <= MaxStores
          /\ stores' = With(stores, id, store)
          /\ Store_seq' = id
          /\ tweeted' \in Notifications
          /\ response' =
               IF tweeted' \in {"tweet_raised", "transport_raised"}
                 THEN Response([error |-> "Operation failed"], 500)
                 ELSE Response(StoreSerializer_data(id, store), 201)

\* POST /stores/
stores_list_create_POST(user, data) ==
  LET id == Store_seq + 1 IN
  /\ request' = Request("POST", "stores", user, 0, data)
  /\ before' = Tables
  /\ UNCHANGED <<products, reviews, Product_seq, Review_seq, oauth>>
  /\ IF ~is_authenticated(user) THEN
       /\ response' = Response([error |-> "Authentication required"], 401)
       /\ tweeted' = "none"
       /\ UNCHANGED <<stores, Store_seq>>
     ELSE IF StoreSerializer_errors(data, FALSE) # {} THEN
       /\ response' = Response([errors |-> StoreSerializer_errors(data, FALSE)], 400)
       /\ tweeted' = "none"
       /\ UNCHANGED <<stores, Store_seq>>
     ELSE
       LET store == StoreSerializer_create(StoreSerializer_validated_data(data),
                                           user, id)
       IN /\ id <= MaxStores
          /\ stores' = With(stores, id, store)
          /\ Store_seq' = id
          /\ tweeted' \in Notifications
          /\ response' = Response(StoreSerializer_data(id, store), 201)

\* Faulty variant of GET /vendors/{id}/stores/ that does not filter by vendor.
get_vendor_stores_Unfiltered(user, vendor_id) ==
  Reply(Request("GET", "vendor_stores", user, vendor_id, NoData),
        IF vendor_id \notin Users
          THEN Response([error |-> "Failed to fetch vendor stores"], 500)
          ELSE LET ids == DOMAIN stores
               IN Response([ i \in 1..Cardinality(ids) |->
                               LET s == OrderByCreatedAtDesc(ids, stores)[i]
                               IN StoreSerializer_data(s, stores[s]) ],
                           200))

\* GET /vendors/{id}/stores/
get_vendor_stores(user, vendor_id) ==
  Reply(Request("GET", "vendor_stores", user, vendor_id, NoData),
        IF vendor_id \notin Users
          THEN Response([error |-> "Failed to fetch vendor stores"], 500)
          ELSE LET ids == { s \in DOMAIN stores : stores[s].vendor = vendor_id }
               IN Response([ i \in 1..Cardinality(ids) |->
                               LET s == OrderByCreatedAtDesc(ids, stores)[i]
                               IN StoreSerializer_data(s, stores[s]) ],
                           200))

\* ReviewSerializer(data=..., context={'request': request}): is_valid() and
\* save().  No URL routes to it; a review is written by the ORM, where the
\* foreign key, NOT NULL and unique_together constraints raise IntegrityError.
ReviewSerializer_save(user, data) ==
  LET id == Review_seq + 1 IN
  /\ request' = Request("SAVE", "review", user, 0, data)
  /\ before' = Tables
  /\ tweeted' = "none"
  /\ UNCHANGED <<stores, products, Store_seq, Product_seq, oauth>>
  /\ IF ReviewSerializer_errors(data) # {} THEN
       /\ response' = Response([errors |-> ReviewSerializer_errors(data)], 0)
       /\ UNCHANGED <<reviews, Review_seq>>
     ELSE IF \/ ~Has(data, "product_id")
             \/ data["product_id"] \notin DOMAIN products
             \/ UniqueTogetherViolated(data["product_id"], user) THEN
       /\ response' = Response([raised |-> "IntegrityError"], 0)
       /\ UNCHANGED <<reviews, Review_seq>>
     ELSE
       LET review == ReviewSerializer_create(data, user, id)
       IN /\ id <= MaxReviews
          /\ reviews' = With(reviews, id, review)
          /\ Review_seq' = id
          /\ response' =
               Response(ReviewSerializer_data(id, review, products, stores), 0)

\* The response is sent and the worker is free for the next request.
respond ==
  /\ request.method # "NONE"
  /\ request' = NoRequest
  /\ before' = NoTables
  /\ response' = Response(NoData, 0)
  /\ tweeted' = "none"
  /\ UNCHANGED <<db, oauth>>

\* ------------------------------------------------------------------ system

Actors == Users \cup {Anon}

\* Empty tables; the Tweet singleton was built by EcommerceConfig.ready() from
\* whatever secrets the settings carry.
Init ==
  /\ stores = <<>>
  /\ products = <<>>
  /\ reviews = <<>>
  /\ Store_seq = 0
  /\ Product_seq = 0
  /\ Review_seq = 0
  /\ \E settings \in SUBSET Secrets : oauth = Tweet_init(settings)
  /\ request = NoRequest
  /\ before = NoTables
  /\ response = Response(NoData, 0)
  /\ tweeted = "none"
  /\ configured = (IF oauth THEN Secrets ELSE {})
  /\ Tweet = Constructed(configured)
  /\ threads = Serving

\* One worker: a request is taken only when the previous one was answered.
Idle == request.method = "NONE"

Next ==
  \/ Idle /\ UNCHANGED tweet_vars /\ \E u \in Actors : stores_list_create_GET(u)
  \/ Idle /\ UNCHANGED tweet_vars /\ \E u \in Actors, d \in StoreData : stores_list_create_POST(u, d)
  \/ Idle /\ UNCHANGED tweet_vars /\ \E u \in Actors, s \in StoreIds : store_detail_GET(u, s)
  \/ Idle /\ UNCHANGED tweet_vars /\ \E u \in Actors, s \in StoreIds, d \in StoreData : store_detail_PUT(u, s, d)
  \/ Idle /\ UNCHANGED tweet_vars /\ \E u \in Actors, s \in StoreIds : store_detail_DELETE(u, s)
  \/ Idle /\ UNCHANGED tweet_vars /\ \E u \in Actors, s \in StoreIds : store_products_GET(u, s)
  \/ Idle /\ UNCHANGED tweet_vars /\ \E u \in Actors, s \in StoreIds, d \in ProductData :
          store_products_POST(u, s, d)
  \/ Idle /\ UNCHANGED tweet_vars /\ \E u \in Actors, p \in ProductIds : product_detail_GET(u, p)
  \/ Idle /\ UNCHANGED tweet_vars /\ \E u \in Actors, p \in ProductIds, d \in ProductData : product_detail_PUT(u, p, d)
  \/ Idle /\ UNCHANGED tweet_vars /\ \E u \in Actors, p \in ProductIds : product_detail_DELETE(u, p)
  \/ Idle /\ UNCHANGED tweet_vars /\ \E u \in Actors, s \in StoreIds : get_vendor_store_reviews(u, s)
  \/ Idle /\ UNCHANGED tweet_vars /\ \E u \in Actors, v \in VendorIds : get_vendor_stores(u, v)
  \/ Idle /\ UNCHANGED tweet_vars /\ \E u \in Users, d \in ReviewData : ReviewSerializer_save(u, d)
  \/ respond /\ UNCHANGED tweet_vars

Spec == Init /\ [][Next]_vars

\* Updates with payloads that tell the fields apart: two names, two descriptions
\* and two prices that pass validation and one of each that does not.
UpdateNames == { <<"a", "b", "c">>, <<" ", "x", "y", "z">>, <<"a", "b", " ">> }
UpdateDescriptions == { <<"d">>, <<"e", " ">>, <<" ">> }
UpdatePrices == { -1, 0, 5 }

StoreUpdates ==
  { n @@ d @@ v : n \in Field("name", UpdateNames),
                  d \in Field("description", UpdateDescriptions),
                  v \in Field("vendor_id", VendorIds) }

ProductUpdates ==
  { n @@ d @@ p @@ s : n \in Field("name", UpdateNames),
                       d \in Field("description", UpdateDescriptions),
                       p \in Field("price", UpdatePrices),
                       s \in Field("store_id", StoreIds) }

\* The tables after v1 created two stores and a product in the first, all from
\* the payload name "abc ", description "d", price 0.
Seeded ==
  LET payload == [ name |-> <<"a", "b", "c", " ">>, description |-> <<"d">>,
                   price |-> 0 ]
      store(now) ==
        StoreSerializer_create(
          StoreSerializer_validated_data([ f \in {"name", "description"} |-> payload[f] ]),
          "v1", now)
      product ==
        ProductSerializer_create(
          ProductSerializer_validated_data(("store_id" :> 1) @@ payload), 1)
  IN [ stores |-> With(With(<<>>, 1, store(1)), 2, store(2)),
       products |-> With(<<>>, 1, product),
       reviews |-> <<>> ]

UpdateInit ==
  /\ stores = Seeded.stores
  /\ products = Seeded.products
  /\ reviews = Seeded.reviews
  /\ Store_seq = 2
  /\ Product_seq = 1
  /\ Review_seq = 0
  /\ oauth = Tweet_init(Secrets)
  /\ request = NoRequest
  /\ before = NoTables
  /\ response = Response(NoData, 0)
  /\ tweeted = "none"
  /\ configured = Secrets
  /\ Tweet = Constructed(configured)
  /\ threads = Serving

UpdateNext ==
  \/ Idle /\ UNCHANGED tweet_vars /\ \E u \in Actors, s \in StoreIds, d \in StoreUpdates :
          store_detail_PUT(u, s, d)
  \/ Idle /\ UNCHANGED tweet_vars /\ \E u \in Actors, p \in ProductIds, d \in ProductUpdates :
          product_detail_PUT(u, p, d)
  \/ respond /\ UNCHANGED tweet_vars

UpdateSpec == UpdateInit /\ [][UpdateNext]_vars

\* The process from startup on, seen inside tweet.py: the tables stay empty and
\* no request is recorded; every statement of Tweet() and make_tweet is a step
\* of the thread that runs it.
TweetInit ==
  /\ stores = <<>>
  /\ products = <<>>
  /\ reviews = <<>>
  /\ Store_seq = 0
  /\ Product_seq = 0
  /\ Review_seq = 0
  /\ configured \in SUBSET Secrets
  /\ oauth = Tweet_init(configured)
  /\ request = NoRequest
  /\ before = NoTables
  /\ response = Response(NoData, 0)
  /\ tweeted = "none"
  /\ Tweet = Tweet_class
  /\ threads = [ t \in Threads |-> Thread(IF t = "ready" THEN "startup" ELSE "idle") ]

Frame == UNCHANGED <<db, oauth, http_vars, configured>>

TweetNext ==
  \/ EcommerceConfig_ready /\ Frame
  \/ EcommerceConfig_ready_return /\ Frame
  \/ \E t \in Handlers : handler_Tweet(t) /\ Frame
  \/ \E t \in Threads : Tweet_new_check(t) /\ Frame
  \/ \E t \in Threads : Tweet_new_create(t) /\ Frame
  \/ \E t \in Threads : Tweet_new_flag(t) /\ Frame
  \/ \E t \in Threads : Tweet_new_return(t) /\ Frame
  \/ \E t \in Threads : Tweet_init_check(t) /\ Frame
  \/ \E t \in Threads : Tweet_init_load(t) /\ Frame
  \/ \E t \in Threads : Tweet_authenticate_run(t) /\ Frame
  \/ \E t \in Handlers : Tweet_make_tweet_check(t) /\ Frame
  \/ \E t \in Handlers : Tweet_make_tweet_post(t) /\ Frame
  \/ \E t \in Handlers : handler_return(t) /\ Frame

TweetSpec == TweetInit /\ [][TweetNext]_vars

\* The same process when a holder of the instance may also call authenticate().
TweetApiNext ==
  \/ TweetNext
  \/ \E t \in Handlers : explicit_authenticate(t) /\ Frame

TweetApiSpec == TweetInit /\ [][TweetApiNext]_vars

\* ------------------------------------------------------------------ claims

\* the request being answered
Handling(method, path) == request.method = method /\ request.path = path

\* the status the access policy gives an actor who is not the owner
Denied(user) == IF user = Anon THEN 401 ELSE 403

\* C1: for every existing store and every actor who is not its vendor, PUT and
\* DELETE /stores/{id}/ answer 403 to an authenticated actor and 401 to an
\* anonymous one, whatever the payload.
C1_StoreWriteDeniedToNonOwner ==
  ( /\ request.path = "store_detail"
    /\ request.method \in {"PUT", "DELETE"}
    /\ request.id \in DOMAIN before.stores
    /\ request.user # before.stores[request.id].vendor )
  => response.status = Denied(request.user)

\* an authenticated non-owner's PUT carrying a valid name was answered 403
C1_Witness ==
  /\ Handling("PUT", "store_detail")
  /\ request.id \in DOMAIN before.stores
  /\ request.user \in Users
  /\ request.user # before.stores[request.id].vendor
  /\ Has(request.data, "name")
  /\ StoreSerializer_errors(request.data, TRUE) = {}
  /\ response.status = 403

\* C2: POST /stores/{id}/products/ adds a product only for the authenticated
\* vendor of store {id}; an anonymous caller gets 401, an authenticated
\* non-owner 403, and then no product is added to any store.
C2_ProductCreateOnlyByStoreOwner ==
  Handling("POST", "store_products") =>
    /\ products # before.products =>
         /\ request.id \in DOMAIN before.stores
         /\ is_authenticated(request.user)
         /\ request.user = before.stores[request.id].vendor
    /\ ( /\ request.id \in DOMAIN before.stores
         /\ request.user # before.stores[request.id].vendor )
       => /\ response.status = Denied(request.user)
          /\ products = before.products

\* an authenticated non-owner posted a payload the owner could have created from
C2_Witness ==
  /\ Handling("POST", "store_products")
  /\ request.id \in DOMAIN before.stores
  /\ request.user \in Users
  /\ request.user # before.stores[request.id].vendor
  /\ {"name", "description", "price"} \subseteq DOMAIN request.data
  /\ ~ProductSerializer_validate_name_raises(CharField(request.data["name"]))
  /\ ~ProductSerializer_validate_price_raises(request.data["price"])
  /\ response.status = 403
  /\ products = before.products

\* C3: PUT or DELETE on /products/{id}/ changes or removes the product only for
\* the authenticated current vendor of the product's store; an anonymous caller
\* gets 401 and any other authenticated caller 403.
C3_ProductWriteOnlyByStoreOwner ==
  ( /\ request.path = "product_detail"
    /\ request.method \in {"PUT", "DELETE"}
    /\ request.id \in DOMAIN before.products )
  => LET owner == before.stores[before.products[request.id].store].vendor
     IN /\ request.user # owner =>
             /\ response.status = Denied(request.user)
             /\ products = before.products
             /\ reviews = before.reviews
        /\ products # before.products =>
             /\ is_authenticated(request.user)
             /\ request.user = owner

\* an authenticated actor who is not the vendor of the product's store was
\* refused the DELETE and the product is still there
C3_Witness ==
  /\ Handling("DELETE", "product_detail")
  /\ request.id \in DOMAIN before.products
  /\ request.user \in Users
  /\ request.user # before.stores[before.products[request.id].store].vendor
  /\ response.status = 403
  /\ request.id \in DOMAIN products

\* C4: a request whose id names no existing resource is answered 404.
C4_MissingResourceIs404 ==
  ( \/ /\ request.path \in {"store_detail", "store_products", "store_reviews"}
       /\ request.id \notin DOMAIN before.stores
    \/ /\ request.path = "product_detail"
       /\ request.id \notin DOMAIN before.products
    \/ /\ request.path = "vendor_stores"
       /\ request.id \notin Users )
  => response.status = 404

\* a store that is requested but absent got another status than 404
C4_Witness ==
  /\ Handling("GET", "store_detail")
  /\ request.id \notin DOMAIN before.stores
  /\ response.status = 500

\* C5: deleting a store removes the store, its products and the reviews of those
\* products, so no product ever references a missing store and no review a
\* missing product; the owner's DELETE answers 204.
C5_StoreDeleteCascades ==
  /\ \A p \in DOMAIN products : products[p].store \in DOMAIN stores
  /\ \A r \in DOMAIN reviews : reviews[r].product \in DOMAIN products
  /\ ( /\ Handling("DELETE", "store_detail")
       /\ request.id \in DOMAIN before.stores
       /\ request.user = before.stores[request.id].vendor )
     => /\ response.status = 204
        /\ request.id \notin DOMAIN stores
        /\ \A p \in DOMAIN before.products :
             before.products[p].store = request.id => p \notin DOMAIN products
        /\ \A r \in DOMAIN before.reviews :
             before.products[before.reviews[r].product].store = request.id
               => r \notin DOMAIN reviews

\* the owner deleted a store that had a reviewed product
C5_Witness ==
  /\ Handling("DELETE", "store_detail")
  /\ response.status = 204
  /\ \E r \in DOMAIN before.reviews :
       /\ before.products[before.reviews[r].product].store = request.id
       /\ r \notin DOMAIN reviews
       /\ before.reviews[r].product \notin DOMAIN products

\* C6: there is at most one review for each (product, reviewer) pair; saving a
\* second one for a pair that has one fails with a conflict error and leaves
\* the reviews as they were.
C6_OneReviewPerProductAndUser ==
  /\ \A r1, r2 \in DOMAIN reviews :
       ( /\ reviews[r1].product = reviews[r2].product
         /\ reviews[r1].user = reviews[r2].user ) => r1 = r2
  /\ ( /\ Handling("SAVE", "review")
       /\ Has(request.data, "product_id")
       /\ \E r \in DOMAIN before.reviews :
            /\ before.reviews[r].product = request.data["product_id"]
            /\ before.reviews[r].user = request.user )
     => /\ DOMAIN response.data \subseteq {"raised", "errors"}
        /\ reviews = before.reviews

\* a valid second review for a pair that has one was refused by the database
C6_Witness ==
  /\ Handling("SAVE", "review")
  /\ ReviewSerializer_errors(request.data) = {}
  /\ Has(request.data, "product_id")
  /\ \E r \in DOMAIN before.reviews :
       /\ before.reviews[r].product = request.data["product_id"]
       /\ before.reviews[r].user = request.user
  /\ response.data = [raised |-> "IntegrityError"]
  /\ reviews = before.reviews

\* the primary keys a list response carries
Listed == { response.data[i].id : i \in DOMAIN response.data }

\* C7: GET /stores/{id}/reviews/ answers 401 to an anonymous caller, 403 to an
\* authenticated caller who is not the store's vendor, and 200 to the vendor
\* with exactly the reviews whose product belongs to that store.
C7_StoreReviewsOwnerOnly ==
  Handling("GET", "store_reviews") =>
    /\ ~is_authenticated(request.user) => response.status = 401
    /\ ( /\ is_authenticated(request.user)
         /\ request.id \in DOMAIN before.stores )
       => IF request.user # before.stores[request.id].vendor
            THEN response.status = 403
            ELSE /\ response.status = 200
                 /\ Listed = { r \in DOMAIN before.reviews :
                       before.products[before.reviews[r].product].store = request.id }
                 /\ Len(response.data) = Cardinality(Listed)
                 /\ \A i \in DOMAIN response.data :
                      LET r == response.data[i].id
                      IN /\ response.data[i].rating = before.reviews[r].rating
                         /\ response.data[i].user = before.reviews[r].user
                         /\ response.data[i].product.id = before.reviews[r].product

\* the vendor got the reviews of the store while another store had a review too
C7_Witness ==
  /\ Handling("GET", "store_reviews")
  /\ response.status = 200
  /\ Listed # {}
  /\ \E r \in DOMAIN reviews : r \notin Listed

\* C8: an anonymous GET of /stores/, /stores/{id}/, /stores/{id}/products/,
\* /products/{id}/ or /vendors/{id}/stores/ on an existing resource answers 200
\* with the stored entity (or exactly the matching set), and no GET changes the
\* tables.
C8_PublicReads ==
  request.method = "GET" =>
    /\ Tables = before
    /\ request.user = Anon =>
         /\ request.path = "stores" =>
              /\ response.status = 200
              /\ Listed = DOMAIN stores
              /\ Len(response.data) = Cardinality(DOMAIN stores)
              /\ \A i \in DOMAIN response.data :
                   /\ response.data[i].name = stores[response.data[i].id].name
                   /\ response.data[i].vendor = stores[response.data[i].id].vendor
         /\ (request.path = "store_detail" /\ request.id \in DOMAIN stores) =>
              /\ response.status = 200
              /\ response.data.id = request.id
              /\ response.data.vendor = stores[request.id].vendor
              /\ response.data.name = stores[request.id].name
              /\ response.data.description = stores[request.id].description
              /\ response.data.created_at = stores[request.id].created_at
         /\ (request.path = "store_products" /\ request.id \in DOMAIN stores) =>
              /\ response.status = 200
              /\ Listed = { p \in DOMAIN products : products[p].store = request.id }
              /\ Len(response.data) = Cardinality(Listed)
              /\ \A i \in DOMAIN response.data :
                   /\ response.data[i].name = products[response.data[i].id].name
                   /\ response.data[i].price = products[response.data[i].id].price
         /\ (request.path = "product_detail" /\ request.id \in DOMAIN products) =>
              /\ response.status = 200
              /\ response.data.id = request.id
              /\ response.data.store.id = products[request.id].store
              /\ response.data.name = products[request.id].name
              /\ response.data.description = products[request.id].description
              /\ response.data.price = products[request.id].price
              /\ response.data.created_at = products[request.id].created_at
         /\ (request.path = "vendor_stores" /\ request.id \in Users) =>
              /\ response.status = 200
              /\ Listed = { s \in DOMAIN stores : stores[s].vendor = request.id }
              /\ Len(response.data) = Cardinality(Listed)

\* an anonymous caller listed the stores of a vendor and got one of two stores
C8_Witness ==
  /\ Handling("GET", "vendor_stores")
  /\ request.user = Anon
  /\ response.status = 200
  /\ Listed # {}
  /\ \E s \in DOMAIN stores : s \notin Listed

\* C9: the owning reference of a created entity comes from the server: a store
\* made by POST /stores/ has the caller as vendor whatever vendor_id the payload
\* carries, an anonymous POST /stores/ answers 401 and creates nothing, and a
\* product made by POST /stores/{id}/products/ is in store {id} whatever
\* store_id the payload carries.
C9_OwnerInjectedOnCreate ==
  /\ Handling("POST", "stores") =>
       /\ ~is_authenticated(request.user) =>
            response.status = 401 /\ Tables = before
       /\ \A s \in DOMAIN stores \ DOMAIN before.stores :
            /\ stores[s].vendor = request.user
            /\ response.data.vendor = request.user
  /\ Handling("POST", "store_products") =>
       \A p \in DOMAIN products \ DOMAIN before.products :
         /\ products[p].store = request.id
         /\ response.data.store.id = request.id

\* a store was created from a payload naming another vendor, and a product from
\* a payload naming another store
C9_Witness ==
  \/ /\ Handling("POST", "stores")
     /\ response.status = 201
     /\ Has(request.data, "vendor_id")
     /\ request.data["vendor_id"] # request.user
     /\ DOMAIN stores # DOMAIN before.stores
  \/ /\ Handling("POST", "store_products")
     /\ response.status = 201
     /\ Has(request.data, "store_id")
     /\ request.data["store_id"] # request.id
     /\ DOMAIN products # DOMAIN before.products

\* the outcomes of the notification that are failures
NotificationFailures == {"skipped", "rejected", "transport_raised", "tweet_raised"}

\* C10: whatever the notification does (skipped without a session, a non-201
\* answer, a transport exception, an exception while obtaining the Tweet
\* instance), a valid create by an authorized actor answers 201 with the created
\* entity, and the entity is in its table.
C10_NotificationNeverChangesCreate ==
  /\ ( /\ Handling("POST", "stores")
       /\ is_authenticated(request.user)
       /\ StoreSerializer_errors(request.data, FALSE) = {} )
     => /\ response.status = 201
        /\ tweeted \in NotificationFailures \cup {"posted"}
        /\ response.data.id \in DOMAIN stores \ DOMAIN before.stores
        /\ response.data =
             StoreSerializer_data(response.data.id, stores[response.data.id])
        /\ \A s \in DOMAIN before.stores : stores[s] = before.stores[s]
  /\ ( /\ Handling("POST", "store_products")
       /\ request.id \in DOMAIN before.stores
       /\ request.user = before.stores[request.id].vendor
       /\ ProductSerializer_errors(("store_id" :> request.id) @@ request.data,
                                   FALSE, request.user) = {} )
     => /\ response.status = 201
        /\ tweeted \in NotificationFailures \cup {"posted"}
        /\ response.data.id \in DOMAIN products \ DOMAIN before.products
        /\ response.data =
             ProductSerializer_data(response.data.id, products[response.data.id],
                                    stores)
        /\ \A p \in DOMAIN before.products : products[p] = before.products[p]
  /\ tweeted \in NotificationFailures => response.status = 201

\* the Tweet instance could not be obtained after a store was saved, and the
\* transport raised after a product was saved
C10_Witness ==
  \/ /\ Handling("POST", "stores")
     /\ tweeted = "tweet_raised"
     /\ response.status = 201
     /\ response.data.id \in DOMAIN stores
  \/ /\ Handling("POST", "store_products")
     /\ tweeted = "transport_raised"
     /\ response.status = 201
     /\ response.data.id \in DOMAIN products

\* the threads that hold an instance returned by Tweet()
Holders == { t \in Threads : threads[t].self # 0 }

C12_OneInstanceInitializedOnce ==
  /\ Len(Tweet.objects) <= 1
  /\ Tweet.loads <= 1
  /\ Tweet.auths <= 1
  /\ \A t \in Holders : threads[t].self = 1 /\ Tweet.instance = 1
  /\ threads["ready"].pc = "done" =>
       /\ Len(Tweet.objects) = 1
       /\ Tweet = Constructed(configured)
  /\ \A t \in Threads : threads[t].pc # "raised" /\ threads[t].result # "raised"

\* two handler threads hold the instance at once, one of them in its second request
C12_Witness ==
  /\ threads["h1"].self = 1
  /\ threads["h2"].self = 1
  /\ threads["h1"].pc = "constructed"
  /\ threads["h2"].pc = "post"
  /\ threads["h1"].calls = 2
  /\ Tweet.loads = 1

CreateByAuthorized ==
  \/ /\ Handling("POST", "stores")
     /\ is_authenticated(request.user)
  \/ /\ Handling("POST", "store_products")
     /\ request.id \in DOMAIN before.stores
     /\ request.user = before.stores[request.id].vendor

\* the row a 201 response reports
Created ==
  IF request.path = "stores" THEN stores[response.data.id]
                             ELSE products[response.data.id]

\* C13: a store or product create whose name has fewer than 3 characters after
\* trimming is answered 400 and stores nothing; a name of exactly 3 characters
\* after trimming, with a description (and, for a product, a price >= 0), is
\* accepted and stored trimmed.
C13_NameAtLeastThreeAfterTrim ==
  (CreateByAuthorized /\ Has(request.data, "name")) =>
    IF Len(Strip(request.data["name"])) < 3
      THEN /\ response.status = 400
           /\ Tables = before
      ELSE ( /\ Len(Strip(request.data["name"])) = 3
             /\ Has(request.data, "description")
             /\ Len(Strip(request.data["description"])) > 0
             /\ request.path = "store_products" =>
                  Has(request.data, "price") /\ request.data["price"] >= 0 )
           => /\ response.status = 201
              /\ Created.name = Strip(request.data["name"])
              /\ response.data.name = Strip(request.data["name"])

\* a 3-character name with a trailing blank was stored trimmed, and a
\* 2-character name with a leading blank was refused
C13_Witness ==
  /\ CreateByAuthorized
  /\ Has(request.data, "name")
  /\ \/ /\ response.status = 201
        /\ Len(request.data["name"]) = 4
        /\ Len(Created.name) = 3
     \/ /\ response.status = 400
        /\ Len(request.data["name"]) = 3
        /\ Len(Strip(request.data["name"])) = 2
        /\ Has(request.data, "description")

\* the value a PUT leaves in a text field of a row
Merged(row, f) ==
  IF Has(request.data, f) THEN Strip(request.data[f]) ELSE row[f]

\* the supplied text fields pass their rules: name >= 3 characters after
\* trimming, description not blank
TextFieldsValid ==
  /\ Has(request.data, "name") => Len(Strip(request.data["name"])) >= 3
  /\ Has(request.data, "description") => Len(Strip(request.data["description"])) > 0

\* C14: an owner's PUT on a store or product whose supplied fields are valid
\* answers 200, writes the supplied fields and leaves the fields that were
\* not supplied, the id and created_at, and every other row as they were.
C14_PutIsPartialUpdate ==
  /\ ( /\ Handling("PUT", "store_detail")
       /\ request.id \in DOMAIN before.stores
       /\ request.user = before.stores[request.id].vendor
       /\ TextFieldsValid
       /\ Has(request.data, "vendor_id") => request.data["vendor_id"] \in Users )
     => LET old == before.stores[request.id]
        IN /\ response.status = 200
           /\ DOMAIN stores = DOMAIN before.stores
           /\ stores[request.id] =
                [ vendor |-> IF Has(request.data, "vendor_id")
                               THEN request.data["vendor_id"] ELSE old.vendor,
                  name |-> Merged(old, "name"),
                  description |-> Merged(old, "description"),
                  created_at |-> old.created_at ]
           /\ \A s \in DOMAIN stores \ {request.id} : stores[s] = before.stores[s]
           /\ products = before.products
           /\ response.data.id = request.id
           /\ response.data.name = stores[request.id].name
           /\ response.data.description = stores[request.id].description
           /\ tweeted = "none"
  /\ ( /\ Handling("PUT", "product_detail")
       /\ request.id \in DOMAIN before.products
       /\ request.user = before.stores[before.products[request.id].store].vendor
       /\ TextFieldsValid
       /\ Has(request.data, "price") => request.data["price"] >= 0
       /\ Has(request.data, "store_id") =>
            /\ request.data["store_id"] \in DOMAIN before.stores
            /\ before.stores[request.data["store_id"]].vendor = request.user )
     => LET old == before.products[request.id]
        IN /\ response.status = 200
           /\ DOMAIN products = DOMAIN before.products
           /\ products[request.id] =
                [ store |-> IF Has(request.data, "store_id")
                              THEN request.data["store_id"] ELSE old.store,
                  name |-> Merged(old, "name"),
                  description |-> Merged(old, "description"),
                  price |-> IF Has(request.data, "price")
                              THEN request.data["price"] ELSE old.price,
                  created_at |-> old.created_at ]
           /\ \A p \in DOMAIN products \ {request.id} : products[p] = before.products[p]
           /\ stores = before.stores
           /\ response.data.id = request.id
           /\ response.data.name = products[request.id].name
           /\ response.data.price = products[request.id].price
           /\ tweeted = "none"

\* a PUT that carried only a name changed the name and nothing else, on a row
\* whose description and price had been changed before
C14_Witness ==
  /\ Handling("PUT", "product_detail")
  /\ response.status = 200
  /\ DOMAIN request.data = {"name"}
  /\ products[request.id].name # before.products[request.id].name
  /\ products[request.id].description = before.products[request.id].description
  /\ products[request.id].description # Seeded.products[1].description
  /\ products[request.id].price = 5

FieldRuleViolated ==
  IF request.path = "stores"
    THEN StoreSerializer_errors(request.data, FALSE) # {}
    ELSE ProductSerializer_errors(("store_id" :> request.id) @@ request.data,
                                  FALSE, request.user) \ {"store_id"} # {}

\* C17: on create the payload is validated before the policy is evaluated: a
\* create whose payload breaks a field rule is answered 400 whoever the actor
\* is, and 401 or 403 are answered to valid payloads only.
C17_ValidationBeforePolicy ==
  ( \/ Handling("POST", "stores")
    \/ Handling("POST", "store_products") /\ request.id \in DOMAIN before.stores )
  => /\ FieldRuleViolated => response.status = 400
     /\ response.status \in {401, 403} => ~FieldRuleViolated

\* an anonymous create with a 2-character name was answered 401, and a create
\* by a non-owner with a negative price 403
C17_Witness ==
  \/ /\ Handling("POST", "stores")
     /\ ~is_authenticated(request.user)
     /\ FieldRuleViolated
     /\ response.status = 401
  \/ /\ Handling("POST", "store_products")
     /\ request.id \in DOMAIN before.stores
     /\ FieldRuleViolated
     /\ response.status = 403

\* C19: the vendor of a store is the actor whose POST /stores/ created it: no
\* PUT /stores/{id}/, whatever its payload, changes the vendor of the store.
C19_PutNeverChangesOwner ==
  ( /\ Handling("PUT", "store_detail")
    /\ request.id \in DOMAIN before.stores )
  => /\ request.id \in DOMAIN stores
     /\ stores[request.id].vendor = before.stores[request.id].vendor

\* the owner's PUT carried the vendor_id of another user, was answered 200 and
\* the store is now the other user's
C19_Witness ==
  /\ Handling("PUT", "store_detail")
  /\ response.status = 200
  /\ request.user = before.stores[request.id].vendor
  /\ Has(request.data, "vendor_id")
  /\ stores[request.id].vendor = request.data["vendor_id"]
  /\ stores[request.id].vendor # request.user

\* the payload of a product PUT names a store that is missing or not the caller's
ForeignStoreId ==
  /\ Has(request.data, "store_id")
  /\ \/ request.data["store_id"] \notin DOMAIN before.stores
     \/ before.stores[request.data["store_id"]].vendor # request.user

\* C20: a PUT on /products/{id}/ never moves the product into a store whose
\* vendor is not the caller: with a store_id that names another vendor's store
\* or no store, the owner's update is answered 400 and the product keeps its
\* store.
C20_PutStoreIdValidated ==
  ( /\ Handling("PUT", "product_detail")
    /\ request.id \in DOMAIN before.products )
  => /\ request.id \in DOMAIN products
     /\ products[request.id].store \in DOMAIN stores
     /\ products[request.id].store # before.products[request.id].store
          => stores[products[request.id].store].vendor = request.user
     /\ ForeignStoreId =>
          /\ products = before.products
          /\ response.status =
               (IF request.user = before.stores[before.products[request.id].store].vendor
                  THEN 400 ELSE Denied(request.user))

\* the owner of a product tried to move it into another vendor's store and
\* got 400
C20_Witness ==
  /\ Handling("PUT", "product_detail")
  /\ request.id \in DOMAIN before.products
  /\ request.user = before.stores[before.products[request.id].store].vendor
  /\ Has(request.data, "store_id")
  /\ request.data["store_id"] \in DOMAIN before.stores
  /\ before.stores[request.data["store_id"]].vendor # request.user
  /\ DOMAIN request.data = {"store_id"}
  /\ response.status = 400
  /\ products = before.products

\* C21: every request answered with 400, 401, 403 or 404 leaves the persisted
\* stores, products and reviews, and all their fields, exactly as they were
\* before the request.
C21_RejectedRequestChangesNothing ==
  response.status \in {400, 401, 403, 404} => Tables = before

\* the owner's PUT on a reviewed product carried a store_id that passes
\* validation and a price that fails it, was answered 400, and every table
\* is as it was
C21_Witness ==
  /\ Handling("PUT", "product_detail")
  /\ request.id \in DOMAIN before.products
  /\ request.user = before.stores[before.products[request.id].store].vendor
  /\ Has(request.data, "store_id")
  /\ request.data["store_id"] \in DOMAIN before.stores
  /\ before.stores[request.data["store_id"]].vendor = request.user
  /\ request.data["store_id"] # before.products[request.id].store
  /\ Has(request.data, "price")
  /\ request.data["price"] < 0
  /\ before.reviews # << >>
  /\ response.status = 400
  /\ Tables = before

\* the four list operations
ListPaths == {"stores", "store_products", "store_reviews", "vendor_stores"}

\* the table a list operation reads its rows from, as it was when the request
\* arrived
ListedTable ==
  CASE request.path = "store_products" -> before.products
    [] request.path = "store_reviews" -> before.reviews
    [] OTHER -> before.stores

\* C22: every list operation (GET /stores/, GET /stores/{id}/products/,
\* GET /stores/{id}/reviews/, GET /vendors/{id}/stores/) returns its entities
\* newest first: of any two returned entities the one created later appears
\* earlier in the list, by the created_at the response carries and by the
\* created_at of the stored row.
C22_ListsNewestFirst ==
  ( /\ request.method = "GET"
    /\ request.path \in ListPaths
    /\ response.status = 200 )
  => \A i, j \in DOMAIN response.data :
       i < j =>
         /\ response.data[i].created_at > response.data[j].created_at
         /\ ListedTable[response.data[i].id].created_at
              > ListedTable[response.data[j].id].created_at

\* a list operation returned two entities
C22_Witness ==
  /\ request.method = "GET"
  /\ request.path \in ListPaths
  /\ response.status = 200
  /\ Len(response.data) = 2
  /\ response.data[1].created_at > response.data[2].created_at

\* a product create or PUT by the vendor of the store concerned
ProductWriteByOwner ==
  \/ /\ Handling("POST", "store_products")
     /\ request.id \in DOMAIN before.stores
     /\ request.user = before.stores[request.id].vendor
  \/ /\ Handling("PUT", "product_detail")
     /\ request.id \in DOMAIN before.products
     /\ request.user = before.stores[before.products[request.id].store].vendor

\* the product row the request wrote
ProductWritten ==
  IF request.method = "POST" THEN products[response.data.id]
                             ELSE products[request.id]

\* C23: every stored product has price >= 0.  A create or PUT carrying a
\* negative price is answered 400 and changes nothing; a price of exactly 0,
\* in a payload whose other fields are valid, is accepted and stored.
C23_PriceNeverNegative ==
  /\ \A p \in DOMAIN products : products[p].price >= 0
  /\ (ProductWriteByOwner /\ Has(request.data, "price")) =>
       IF request.data["price"] < 0
         THEN /\ response.status = 400
              /\ Tables = before
         ELSE ( /\ request.data["price"] = 0
                /\ TextFieldsValid
                /\ request.method = "PUT" => ~ForeignStoreId
                /\ request.method = "POST" =>
                     {"name", "description"} \subseteq DOMAIN request.data )
              => /\ response.status = (IF request.method = "POST" THEN 201 ELSE 200)
                 /\ ProductWritten.price = 0
                 /\ response.data.price = 0

\* a create and a PUT with a negative price were refused, and a create and a
\* PUT with price 0 were accepted
C23_Witness ==
  /\ ProductWriteByOwner
  /\ Has(request.data, "price")
  /\ \/ /\ request.data["price"] < 0
        /\ DOMAIN request.data = {"name", "description", "price"}
        /\ TextFieldsValid
        /\ response.status = 400
     \/ /\ request.data["price"] = 0
        /\ response.status \in {200, 201}
        /\ ProductWritten.price = 0

====
